---- MODULE Spec2Model ----
(***************************************************************************)
(* Reservation engine of the travel-booking backend: the room ledger       *)
(* (roomBookings), the itinerary holds (room items) and the ride state     *)
(* machine (rideBookings), as the route handlers under src/app/routes      *)
(* read and write them.                                                    *)
(*                                                                         *)
(* Every handler opens its own database session (get_db), so a handler is  *)
(* a transaction: its queries see what has been committed when they run,   *)
(* its writes become visible at db.commit().  A handler that queries and   *)
(* then commits is modelled as two steps, <handler>_read and               *)
(* <handler>_commit, and the steps of different request workers            *)
(* interleave.  A handler whose only write is one SQL statement guarded by *)
(* the rows it has just checked is one step.                               *)
(***************************************************************************)
EXTENDS Integers, FiniteSets, Sequences, TLC

\* ------------------------------------------------------------------ bounds
NumProcs      == 2   \* concurrent request workers
NumCustomers  == 2   \* customer accounts
NumRooms      == 2   \* room types
MaxDay        == 2   \* calendar days are 0 .. MaxDay
MaxTotal      == 2   \* largest totalNumber of a room
MaxItineraries == 1  \* itinerary ids ever issued
MaxRoomItems  == 2   \* room item ids ever issued
MaxBookings   == 2   \* room booking ids ever issued
MaxRides      == 2   \* ride booking ids ever issued

NULL == 0            \* SQL NULL of an integer column (ids start at 1)

Procs     == 1 .. NumProcs
Customers == 1 .. NumCustomers
Rooms     == 1 .. NumRooms
Days      == 0 .. MaxDay

\* users that may call the driver endpoints, and the drivers table
\* (Driver.userId -> Driver.id); the last user has no driver record
DriverUsers == 1 .. 3
DriverTable == (1 :> 11) @@ (2 :> 12)

VARIABLES
    totalNumber,    \* Room.totalNumber, by room id
    roomBookings,   \* table roomBookings: id -> row
    roomItems,      \* table room_items:   id -> row
    itineraries,    \* table itineraries:  id -> customerId
    rideBookings,   \* table rideBookings: id -> row
    nextId,         \* the serial primary-key sequences
    proc,           \* each request worker: the handler it is in and what it read
    keep            \* whether a worker keeps the response of its last request

vars == <<totalNumber, roomBookings, roomItems, itineraries, rideBookings,
          nextId, proc, keep>>
db   == <<totalNumber, roomBookings, roomItems, itineraries, rideBookings, nextId>>

\* ------------------------------------------------------------------ workers
\* pc: where the worker is; op, who, id: the handler, the caller and the id of
\* the request; roomId, startDate, endDate: the range to book; bookingId: the
\* booking to insert or delete; ref: the row found to update; res: the
\* response; dates: the unavailable dates a 409 response lists
Idle == [pc |-> "idle", op |-> "none", who |-> NULL, id |-> NULL, roomId |-> NULL,
         startDate |-> 0, endDate |-> 0, bookingId |-> NULL, ref |-> NULL, res |-> 0,
         dates |-> {}, now |-> 0, list |-> <<>>]

Ready(p) == proc[p].pc \in {"idle", "done"}

\* the handler returns (res = 200/204) or raises HTTPException(res)
Return(p, call, res) ==
    proc' = [proc EXCEPT ![p] =
                IF keep THEN [call EXCEPT !.pc = "done", !.res = res] ELSE Idle]

Call(op, who, id) == [Idle EXCEPT !.op = op, !.who = who, !.id = id]

\* a function with one more row / one row less
Insert(table, id, row) == [k \in DOMAIN table \cup {id} |->
                              IF k = id THEN row ELSE table[k]]
Delete(table, ids)     == [k \in DOMAIN table \ ids |-> table[k]]

\* ------------------------------------------------------------------ itineraries
\* create_itinerary: a new itinerary of the calling customer
create_itinerary(p, c) ==
    /\ Ready(p)
    /\ nextId.itinerary <= MaxItineraries
    /\ itineraries' = Insert(itineraries, nextId.itinerary, c)
    /\ nextId' = [nextId EXCEPT !.itinerary = @ + 1]
    /\ Return(p, Call("create_itinerary", c, nextId.itinerary), 200)
    /\ UNCHANGED <<totalNumber, roomBookings, roomItems, rideBookings, keep>>

OwnsItinerary(c, i) == i \in DOMAIN itineraries /\ itineraries[i] = c

\* ------------------------------------------------------------------ rides
\* book_ride_for_itinerary: a pending ride without driver
book_ride_for_itinerary(p, c, i) ==
    /\ Ready(p)
    /\ nextId.ride <= MaxRides
    /\ IF ~OwnsItinerary(c, i)
       THEN /\ Return(p, Call("book_ride", c, i), 404)
            /\ UNCHANGED db
       ELSE /\ rideBookings' = Insert(rideBookings, nextId.ride,
                    [customerId |-> c, itineraryId |-> i, driverId |-> NULL,
                     status |-> "pending"])
            /\ nextId' = [nextId EXCEPT !.ride = @ + 1]
            /\ Return(p, Call("book_ride", c, i), 200)
            /\ UNCHANGED <<totalNumber, roomBookings, roomItems, itineraries>>
    /\ UNCHANGED keep

\* accept_ride_read when the ride query filters on the id alone: a ride in
\* any status, with or without driver, is taken
accept_ride_read_AnyStatus(p, ride_id, driver_id) ==
    /\ Ready(p)
    /\ LET call == Call("accept_ride", driver_id, ride_id) IN
       IF driver_id \notin DOMAIN DriverTable
       THEN Return(p, call, 404)
       ELSE IF ride_id \notin DOMAIN rideBookings
       THEN Return(p, call, 404)
       ELSE proc' = [proc EXCEPT ![p] =
                [call EXCEPT !.pc = "accept_ride", !.ref = DriverTable[driver_id]]]
    /\ UNCHANGED <<db, keep>>

\* accept_ride, the two queries: the driver of the user, the ride if it is
\* pending and unassigned
accept_ride_read(p, ride_id, driver_id) ==
    /\ Ready(p)
    /\ LET call == Call("accept_ride", driver_id, ride_id) IN
       IF driver_id \notin DOMAIN DriverTable
       THEN Return(p, call, 404)
       ELSE IF ~(/\ ride_id \in DOMAIN rideBookings
                 /\ rideBookings[ride_id].status = "pending"
                 /\ rideBookings[ride_id].driverId = NULL)
       THEN Return(p, call, 404)
       ELSE proc' = [proc EXCEPT ![p] =
                [call EXCEPT !.pc = "accept_ride", !.ref = DriverTable[driver_id]]]
    /\ UNCHANGED <<db, keep>>

\* accept_ride, the flush and commit: UPDATE rideBookings SET driverId, status
\* WHERE id = ride.id
accept_ride_commit(p) ==
    /\ proc[p].pc = "accept_ride"
    /\ rideBookings' = [rideBookings EXCEPT
            ![proc[p].id].driverId = proc[p].ref,
            ![proc[p].id].status   = "confirmed"]
    /\ Return(p, proc[p], 200)
    /\ UNCHANGED <<totalNumber, roomBookings, roomItems, itineraries, nextId, keep>>

\* cancel_ride, the queries: the itinerary of the customer, the ride of that
\* itinerary and customer
cancel_ride_read(p, c, i, ride_id) ==
    /\ Ready(p)
    /\ LET call == [Call("cancel_ride", c, ride_id) EXCEPT !.ref = i] IN
       IF ~OwnsItinerary(c, i)
       THEN Return(p, call, 404)
       ELSE IF ~(/\ ride_id \in DOMAIN rideBookings
                 /\ rideBookings[ride_id].itineraryId = i
                 /\ rideBookings[ride_id].customerId = c)
       THEN Return(p, call, 404)
       ELSE proc' = [proc EXCEPT ![p] =
                [call EXCEPT !.pc = IF rideBookings[ride_id].status = "cancelled"
                                    THEN "cancel_ride_clean" ELSE "cancel_ride"]]
    /\ UNCHANGED <<db, keep>>

\* cancel_ride, the commit: UPDATE rideBookings SET status WHERE id = ride.id;
\* an attribute set to the value that was loaded is not dirty and no UPDATE is sent
cancel_ride_commit(p) ==
    /\ proc[p].pc \in {"cancel_ride", "cancel_ride_clean"}
    /\ rideBookings' = IF proc[p].pc = "cancel_ride"
                       THEN [rideBookings EXCEPT ![proc[p].id].status = "cancelled"]
                       ELSE rideBookings
    /\ Return(p, proc[p], 204)
    /\ UNCHANGED <<totalNumber, roomBookings, roomItems, itineraries, nextId, keep>>

\* ------------------------------------------------------------------ availability
\* RoomBooking.startDate < end_date, RoomBooking.endDate > start_date
Overlaps(b, start_date, end_date) ==
    roomBookings[b].startDate < end_date /\ roomBookings[b].endDate > start_date

\* booking.startDate <= current_date < booking.endDate
Covers(b, current_date) ==
    roomBookings[b].startDate <= current_date /\ current_date < roomBookings[b].endDate

\* the day loop of book_room and book_room_by_room_id: the days of
\* [start_date, end_date) on which the bookings of existing_bookings that
\* include the day are at least total
UnavailableDates(existing_bookings, total, start_date, end_date) ==
    {d \in Days : /\ start_date <= d /\ d < end_date
                  /\ Cardinality({b \in existing_bookings : Covers(b, d)}) >= total}

\* the existing_bookings query of book_room: the join with rooms does not
\* restrict the room, every booking that overlaps the range is fetched
ExistingBookingsOfItem(start_date, end_date) ==
    {b \in DOMAIN roomBookings : Overlaps(b, start_date, end_date)}

\* the existing_bookings query of book_room_by_room_id
ExistingBookingsOfRoom(room_id, start_date, end_date) ==
    {b \in DOMAIN roomBookings :
        roomBookings[b].roomId = room_id /\ Overlaps(b, start_date, end_date)}

\* workers between the read and the commit of a booking: each will take an id
Booking(p) == proc[p].pc \in {"book_room", "book_room_by_room_id"}
IdsLeft == nextId.roomBooking + Cardinality({p \in Procs : Booking(p)}) <= MaxBookings

\* ------------------------------------------------------------------ holds
\* add_room_to_itinerary with the availability check of the commit: a hold on
\* a room that is full on a day of the range is refused
add_room_to_itinerary_ChecksCapacity(p, c, i, room_id, start_date, end_date) ==
    /\ Ready(p)
    /\ nextId.roomItem <= MaxRoomItems
    /\ LET call == [Call("add_room_to_itinerary", c, i) EXCEPT !.roomId = room_id,
                        !.startDate = start_date, !.endDate = end_date] IN
       IF ~OwnsItinerary(c, i) \/ room_id \notin Rooms
       THEN /\ Return(p, call, 404)
            /\ UNCHANGED db
       ELSE IF UnavailableDates(ExistingBookingsOfRoom(room_id, start_date, end_date),
                   totalNumber[room_id], start_date, end_date) # {}
       THEN /\ Return(p, call, 409)
            /\ UNCHANGED db
       ELSE /\ roomItems' = Insert(roomItems, nextId.roomItem,
                    [itineraryId |-> i, roomId |-> room_id, startDate |-> start_date,
                     endDate |-> end_date, roomBookingId |-> NULL])
            /\ nextId' = [nextId EXCEPT !.roomItem = @ + 1]
            /\ Return(p, call, 200)
            /\ UNCHANGED <<totalNumber, roomBookings, itineraries, rideBookings>>
    /\ UNCHANGED keep

\* add_room_to_itinerary: a room item without booking, no availability check
add_room_to_itinerary(p, c, i, room_id, start_date, end_date) ==
    /\ Ready(p)
    /\ nextId.roomItem <= MaxRoomItems
    /\ LET call == [Call("add_room_to_itinerary", c, i) EXCEPT !.roomId = room_id,
                        !.startDate = start_date, !.endDate = end_date] IN
       IF ~OwnsItinerary(c, i) \/ room_id \notin Rooms
       THEN /\ Return(p, call, 404)
            /\ UNCHANGED db
       ELSE /\ roomItems' = Insert(roomItems, nextId.roomItem,
                    [itineraryId |-> i, roomId |-> room_id, startDate |-> start_date,
                     endDate |-> end_date, roomBookingId |-> NULL])
            /\ nextId' = [nextId EXCEPT !.roomItem = @ + 1]
            /\ Return(p, call, 200)
            /\ UNCHANGED <<totalNumber, roomBookings, itineraries, rideBookings>>
    /\ UNCHANGED keep

\* update_room_dates: setattr of the fields the request sets (Unset: left out)
Unset == 0 - 1
update_room_dates(p, c, i, item_id, start_date, end_date) ==
    /\ Ready(p)
    /\ LET call == [Call("update_room_dates", c, item_id) EXCEPT !.ref = i,
                        !.startDate = start_date, !.endDate = end_date] IN
       IF \/ ~OwnsItinerary(c, i)
          \/ item_id \notin DOMAIN roomItems
          \/ roomItems[item_id].itineraryId # i
       THEN /\ Return(p, call, 404)
            /\ UNCHANGED roomItems
       ELSE /\ roomItems' = [roomItems EXCEPT
                    ![item_id].startDate = IF start_date = Unset THEN @ ELSE start_date,
                    ![item_id].endDate   = IF end_date = Unset THEN @ ELSE end_date]
            /\ Return(p, call, 200)
    /\ UNCHANGED <<totalNumber, roomBookings, itineraries, rideBookings, nextId, keep>>

\* remove_room_from_itinerary: DELETE of the room item, booked or not
remove_room_from_itinerary(p, c, i, item_id) ==
    /\ Ready(p)
    /\ LET call == [Call("remove_room_from_itinerary", c, item_id) EXCEPT !.ref = i] IN
       IF \/ ~OwnsItinerary(c, i)
          \/ item_id \notin DOMAIN roomItems
          \/ roomItems[item_id].itineraryId # i
       THEN /\ Return(p, call, 404)
            /\ UNCHANGED roomItems
       ELSE /\ roomItems' = Delete(roomItems, {item_id})
            /\ Return(p, call, 204)
    /\ UNCHANGED <<totalNumber, roomBookings, itineraries, rideBookings, nextId, keep>>

\* delete_itinerary that refuses whenever the itinerary has a ride, whatever
\* the status of the ride
delete_itinerary_AnyRideBlocks(p, c, i) ==
    /\ Ready(p)
    /\ LET call  == Call("delete_itinerary", c, i)
           rides == {r \in DOMAIN rideBookings : rideBookings[r].itineraryId = i}
       IN
       IF ~OwnsItinerary(c, i)
       THEN /\ Return(p, call, 404)
            /\ UNCHANGED <<roomItems, itineraries>>
       ELSE IF rides # {}
       THEN /\ Return(p, call, 400)
            /\ UNCHANGED <<roomItems, itineraries>>
       ELSE /\ roomItems' = Delete(roomItems,
                   {k \in DOMAIN roomItems : roomItems[k].itineraryId = i})
            /\ itineraries' = Delete(itineraries, {i})
            /\ Return(p, call, 204)
    /\ UNCHANGED <<totalNumber, roomBookings, rideBookings, nextId, keep>>

\* delete_itinerary: refused when the first ride the query returns is
\* confirmed or completed (any row may come first: no ORDER BY); deletes the
\* room items and the itinerary, no room booking and no ride
delete_itinerary(p, c, i) ==
    /\ Ready(p)
    /\ LET call  == Call("delete_itinerary", c, i)
           rides == {r \in DOMAIN rideBookings : rideBookings[r].itineraryId = i}
       IN
       IF ~OwnsItinerary(c, i)
       THEN /\ Return(p, call, 404)
            /\ UNCHANGED <<roomItems, itineraries>>
       ELSE \/ /\ \E ride_booking \in rides :
                     rideBookings[ride_booking].status \in {"completed", "confirmed"}
               /\ Return(p, call, 400)
               /\ UNCHANGED <<roomItems, itineraries>>
            \/ /\ \/ rides = {}
                  \/ \E ride_booking \in rides :
                        rideBookings[ride_booking].status \notin {"completed", "confirmed"}
               /\ roomItems' = Delete(roomItems,
                      {k \in DOMAIN roomItems : roomItems[k].itineraryId = i})
               /\ itineraries' = Delete(itineraries, {i})
               /\ Return(p, call, 204)
    /\ UNCHANGED <<totalNumber, roomBookings, rideBookings, nextId, keep>>

\* ------------------------------------------------------------------ commit
\* book_room_read without step 2: a room item that has a booking is booked again
book_room_read_NoLinkCheck(p, c, room_item_id) ==
    /\ Ready(p)
    /\ IF room_item_id \notin DOMAIN roomItems
       THEN Return(p, Call("book_room", c, room_item_id), 404)
       ELSE LET room_item  == roomItems[room_item_id]
                start_date == room_item.startDate
                end_date   == room_item.endDate
                call == [Call("book_room", c, room_item_id) EXCEPT
                            !.roomId = room_item.roomId,
                            !.startDate = start_date, !.endDate = end_date]
                unavailable_dates ==
                    UnavailableDates(ExistingBookingsOfItem(start_date, end_date),
                        totalNumber[room_item.roomId], start_date, end_date)
            IN
            IF ~OwnsItinerary(c, room_item.itineraryId)
            THEN Return(p, call, 403)
            ELSE IF unavailable_dates # {}
            THEN Return(p, [call EXCEPT !.dates = unavailable_dates], 409)
            ELSE /\ IdsLeft
                 /\ proc' = [proc EXCEPT ![p] = [call EXCEPT !.pc = "book_room"]]
    /\ UNCHANGED <<db, keep>>

\* book_room (create_room_booking), steps 1 to 3: the room item, its owner,
\* its link, the availability of every day of its range
book_room_read(p, c, room_item_id) ==
    /\ Ready(p)
    /\ IF room_item_id \notin DOMAIN roomItems
       THEN Return(p, Call("book_room", c, room_item_id), 404)
       ELSE LET room_item  == roomItems[room_item_id]
                start_date == room_item.startDate
                end_date   == room_item.endDate
                call == [Call("book_room", c, room_item_id) EXCEPT
                            !.roomId = room_item.roomId,
                            !.startDate = start_date, !.endDate = end_date]
                unavailable_dates ==
                    UnavailableDates(ExistingBookingsOfItem(start_date, end_date),
                        totalNumber[room_item.roomId], start_date, end_date)
            IN
            IF ~OwnsItinerary(c, room_item.itineraryId)
            THEN Return(p, call, 403)
            ELSE IF room_item.roomBookingId # NULL
            THEN Return(p, call, 400)
            ELSE IF unavailable_dates # {}
            THEN Return(p, [call EXCEPT !.dates = unavailable_dates], 409)
            ELSE /\ IdsLeft
                 /\ proc' = [proc EXCEPT ![p] = [call EXCEPT !.pc = "book_room"]]
    /\ UNCHANGED <<db, keep>>

\* book_room_flush when the session commits the INSERT at once (autocommit)
book_room_flush_Autocommit(p) ==
    /\ proc[p].pc = "book_room"
    /\ nextId' = [nextId EXCEPT !.roomBooking = @ + 1]
    /\ roomBookings' = Insert(roomBookings, nextId.roomBooking,
            [customerId |-> proc[p].who, roomId |-> proc[p].roomId,
             startDate |-> proc[p].startDate, endDate |-> proc[p].endDate])
    /\ proc' = [proc EXCEPT ![p].pc = "book_room_flushed",
                            ![p].bookingId = nextId.roomBooking]
    /\ UNCHANGED <<totalNumber, roomItems, itineraries, rideBookings, keep>>

\* book_room, step 4, db.add and db.flush: the INSERT is sent inside the open
\* transaction and draws the id of the booking; nothing is committed yet
book_room_flush(p) ==
    /\ proc[p].pc = "book_room"
    /\ nextId' = [nextId EXCEPT !.roomBooking = @ + 1]
    /\ proc' = [proc EXCEPT ![p].pc = "book_room_flushed",
                            ![p].bookingId = nextId.roomBooking]
    /\ UNCHANGED <<totalNumber, roomBookings, roomItems, itineraries, rideBookings, keep>>

\* book_room_commit that books the room of the request's first room, not the
\* room of the room item
book_room_commit_WrongRoom(p) ==
    /\ proc[p].pc = "book_room_flushed"
    /\ proc[p].id \in DOMAIN roomItems
    /\ roomBookings' = Insert(roomBookings, proc[p].bookingId,
            [customerId |-> proc[p].who, roomId |-> 1,
             startDate |-> proc[p].startDate, endDate |-> proc[p].endDate])
    /\ roomItems' = [roomItems EXCEPT ![proc[p].id].roomBookingId = proc[p].bookingId]
    /\ Return(p, proc[p], 200)
    /\ UNCHANGED <<totalNumber, itineraries, rideBookings, nextId, keep>>

\* book_room, step 4, room_item.roomBookingId = room_booking.id and db.commit:
\* UPDATE room_items SET roomBookingId WHERE id = room_item.id, then the
\* INSERT and the UPDATE are committed together.  The UPDATE of a row that
\* is gone raises StaleDataError and nothing is committed
book_room_commit(p) ==
    /\ proc[p].pc = "book_room_flushed"
    /\ IF proc[p].id \notin DOMAIN roomItems
       THEN /\ Return(p, proc[p], 500)
            /\ UNCHANGED <<roomBookings, roomItems>>
       ELSE /\ roomBookings' = Insert(roomBookings, proc[p].bookingId,
                    [customerId |-> proc[p].who, roomId |-> proc[p].roomId,
                     startDate |-> proc[p].startDate, endDate |-> proc[p].endDate])
            /\ roomItems' = [roomItems EXCEPT
                    ![proc[p].id].roomBookingId = proc[p].bookingId]
            /\ Return(p, proc[p], 200)
    /\ UNCHANGED <<totalNumber, itineraries, rideBookings, nextId, keep>>

\* the request dies between two steps of a handler (the worker is killed, the
\* connection is lost): get_db closes the session, the open transaction is
\* rolled back
crash(p) ==
    /\ proc[p].pc \notin {"idle", "done"}
    /\ Return(p, proc[p], 500)
    /\ UNCHANGED <<db, keep>>

\* book_room_by_room_id, the checks: the capacity of the room (persons_ok:
\* number_of_persons <= roomCapacity), the availability of every day
book_room_by_room_id_read(p, c, room_id, start_date, end_date, persons_ok) ==
    /\ Ready(p)
    /\ LET call == [Call("book_room_by_room_id", c, NULL) EXCEPT !.roomId = room_id,
                        !.startDate = start_date, !.endDate = end_date]
           unavailable_dates ==
               UnavailableDates(ExistingBookingsOfRoom(room_id, start_date, end_date),
                   totalNumber[room_id], start_date, end_date)
       IN
       IF room_id \notin Rooms
       THEN Return(p, call, 404)
       ELSE IF ~persons_ok
       THEN Return(p, call, 400)
       ELSE IF unavailable_dates # {}
       THEN Return(p, [call EXCEPT !.dates = unavailable_dates], 409)
       ELSE /\ IdsLeft
            /\ proc' = [proc EXCEPT ![p] = [call EXCEPT !.pc = "book_room_by_room_id"]]
    /\ UNCHANGED <<db, keep>>

\* book_room_by_room_id, the insert and commit
book_room_by_room_id_commit(p) ==
    /\ proc[p].pc = "book_room_by_room_id"
    /\ roomBookings' = Insert(roomBookings, nextId.roomBooking,
            [customerId |-> proc[p].who, roomId |-> proc[p].roomId,
             startDate |-> proc[p].startDate, endDate |-> proc[p].endDate])
    /\ nextId' = [nextId EXCEPT !.roomBooking = @ + 1]
    /\ Return(p, [proc[p] EXCEPT !.bookingId = nextId.roomBooking], 200)
    /\ UNCHANGED <<totalNumber, roomItems, itineraries, rideBookings, keep>>

\* ------------------------------------------------------------------ release
\* the room items a query for RoomItem.roomBookingId == booking_id can return
\* first (NULL: no row)
FirstItemOf(booking_id) ==
    LET items == {k \in DOMAIN roomItems : roomItems[k].roomBookingId = booking_id}
    IN  IF items = {} THEN {NULL} ELSE items

\* ReleaseCommit without room_item.roomBookingId = None: the booking is
\* deleted, the room item keeps its link
ReleaseCommit_KeepsLink(p) ==
    /\ roomBookings' = Delete(roomBookings, {proc[p].bookingId})
    /\ Return(p, proc[p], 200)
    /\ UNCHANGED <<totalNumber, roomItems, itineraries, rideBookings, nextId, keep>>

\* ReleaseCommit without db.delete(booking): the room item is unlinked, the
\* booking stays
ReleaseCommit_KeepsBooking(p) ==
    /\ roomItems' = IF proc[p].ref = NULL \/ proc[p].ref \notin DOMAIN roomItems
                    THEN roomItems
                    ELSE [roomItems EXCEPT ![proc[p].ref].roomBookingId = NULL]
    /\ Return(p, proc[p], 200)
    /\ UNCHANGED <<totalNumber, roomBookings, itineraries, rideBookings, nextId, keep>>

\* ReleaseCommit that deletes every booking of the room of the released one
ReleaseCommit_DeletesRoom(p) ==
    /\ roomItems' = IF proc[p].ref = NULL \/ proc[p].ref \notin DOMAIN roomItems
                    THEN roomItems
                    ELSE [roomItems EXCEPT ![proc[p].ref].roomBookingId = NULL]
    /\ roomBookings' = Delete(roomBookings,
            {b \in DOMAIN roomBookings :
                \/ b = proc[p].bookingId
                \/ /\ proc[p].bookingId \in DOMAIN roomBookings
                   /\ roomBookings[b].roomId = roomBookings[proc[p].bookingId].roomId})
    /\ Return(p, proc[p], 200)
    /\ UNCHANGED <<totalNumber, itineraries, rideBookings, nextId, keep>>

\* the commit of a release: UPDATE room_items SET roomBookingId = NULL WHERE
\* id = room_item.id (StaleDataError when the row is gone), DELETE the booking
ReleaseCommit(p) ==
    /\ IF proc[p].ref # NULL /\ proc[p].ref \notin DOMAIN roomItems
       THEN /\ Return(p, proc[p], 500)
            /\ UNCHANGED <<roomBookings, roomItems>>
       ELSE /\ roomItems' = IF proc[p].ref = NULL THEN roomItems
                            ELSE [roomItems EXCEPT ![proc[p].ref].roomBookingId = NULL]
            /\ roomBookings' = Delete(roomBookings, {proc[p].bookingId})
            /\ Return(p, proc[p], 200)
    /\ UNCHANGED <<totalNumber, itineraries, rideBookings, nextId, keep>>

\* cancel_room_booking: the booking, its owner, the room item that refers to it
cancel_room_booking_read(p, call, booking_id, customer_id) ==
    IF booking_id \notin DOMAIN roomBookings
    THEN Return(p, call, 404)
    ELSE IF roomBookings[booking_id].customerId # customer_id
    THEN Return(p, call, 403)
    ELSE \E room_item \in FirstItemOf(booking_id) :
            proc' = [proc EXCEPT ![p] =
                [call EXCEPT !.pc = "cancel_room_booking", !.bookingId = booking_id,
                             !.ref = room_item]]

\* cancel_room_booking_endpoint without the test of roomBookingId: the
\* cancellation is called with the link of the room item, set or not
cancel_room_booking_endpoint_NoBookedCheck(p, c, room_item_id) ==
    /\ Ready(p)
    /\ LET call == Call("cancel_room_booking_endpoint", c, room_item_id) IN
       IF room_item_id \notin DOMAIN roomItems
       THEN Return(p, call, 404)
       ELSE IF ~OwnsItinerary(c, roomItems[room_item_id].itineraryId)
       THEN Return(p, call, 403)
       ELSE cancel_room_booking_read(p, call, roomItems[room_item_id].roomBookingId, c)
    /\ UNCHANGED <<db, keep>>

\* cancel_room_booking_endpoint: release through the room item
cancel_room_booking_endpoint(p, c, room_item_id) ==
    /\ Ready(p)
    /\ LET call == Call("cancel_room_booking_endpoint", c, room_item_id) IN
       IF room_item_id \notin DOMAIN roomItems
       THEN Return(p, call, 404)
       ELSE IF ~OwnsItinerary(c, roomItems[room_item_id].itineraryId)
       THEN Return(p, call, 403)
       ELSE IF roomItems[room_item_id].roomBookingId = NULL
       THEN Return(p, call, 400)
       ELSE cancel_room_booking_read(p, call, roomItems[room_item_id].roomBookingId, c)
    /\ UNCHANGED <<db, keep>>

cancel_room_booking_commit(p) ==
    /\ proc[p].pc = "cancel_room_booking"
    /\ ReleaseCommit(p)

\* cancel_customer_booking: release by booking id; in_time: the booking has
\* not ended and its check-in is at least 24 hours away
cancel_customer_booking_read(p, c, booking_id, in_time) ==
    /\ Ready(p)
    /\ LET call == Call("cancel_customer_booking", c, booking_id) IN
       IF \/ booking_id \notin DOMAIN roomBookings
          \/ roomBookings[booking_id].customerId # c
       THEN Return(p, call, 404)
       ELSE IF ~in_time
       THEN Return(p, call, 400)
       ELSE \E room_item \in FirstItemOf(booking_id) :
               proc' = [proc EXCEPT ![p] =
                   [call EXCEPT !.pc = "cancel_customer_booking",
                                !.bookingId = booking_id, !.ref = room_item]]
    /\ UNCHANGED <<db, keep>>

cancel_customer_booking_commit(p) ==
    /\ proc[p].pc = "cancel_customer_booking"
    /\ ReleaseCommit(p)

\* ------------------------------------------------------------------ the availability listings
max(a, b) == IF a >= b THEN a ELSE b
min(a, b) == IF a <= b THEN a ELSE b

\* the list of get_available_rooms and get_hotel for one room: booked_rooms
\* has one entry per day of the window, a booking adds one to the entries
\* start_index .. end_index; the entry of index i is room.totalNumber - booked.
\* start_date, end_date and the dates of the bookings are in half days, so
\* that timedelta.days is the floor of half the difference
available_rooms_list(room_id, start_date, end_date) ==
    LET room_bookings == {b \in DOMAIN roomBookings :
                             /\ roomBookings[b].roomId = room_id
                             /\ 2 * roomBookings[b].startDate <= end_date
                             /\ 2 * roomBookings[b].endDate > start_date}
        days == (end_date - start_date) \div 2
        start_index(b) == max(0, (2 * roomBookings[b].startDate - start_date) \div 2)
        end_index(b)   == min(days, (2 * roomBookings[b].endDate - start_date) \div 2 - 1)
        booked_rooms == [i \in 0 .. days |->
                            Cardinality({b \in room_bookings :
                                            start_index(b) <= i /\ i <= end_index(b)})]
    IN [i \in 0 .. days |-> totalNumber[room_id] - booked_rooms[i]]

\* get_available_rooms: the customer gives start_date and end_date (whole
\* days here); one list per room
get_available_rooms(p, start_date, end_date) ==
    /\ Ready(p)
    /\ Return(p, [Call("get_available_rooms", NULL, NULL) EXCEPT
                     !.startDate = start_date, !.endDate = end_date,
                     !.list = [r \in Rooms |->
                                 available_rooms_list(r, 2 * start_date, 2 * end_date)]],
              200)
    /\ UNCHANGED <<db, keep>>

\* get_hotel: the window starts at datetime.utcnow(), a time of day (now, in
\* half days), and is 60 days long: longer than the calendar of the model,
\* of which the days from today on are kept
get_hotel(p, now) ==
    /\ Ready(p)
    /\ LET today == now \div 2
           end_date == now + 2 * (MaxDay - today)
       IN Return(p, [Call("get_hotel", NULL, NULL) EXCEPT
                        !.startDate = today, !.endDate = MaxDay, !.now = now,
                        !.list = [r \in Rooms |-> available_rooms_list(r, now, end_date)]],
                 200)
    /\ UNCHANGED <<db, keep>>

\* get_room_overview: a day of the next 60 counts for a booking when
\* booking.startDate.date() <= current_date <= booking.endDate.date();
\* available_count is computed room by room, and the response, built after
\* the loop, gives every room the list of the room the loop ended with (the
\* query has no ORDER BY: any room may come last)
get_room_overview(p, today) ==
    /\ Ready(p)
    /\ LET booked_count(room, day_offset) ==
               Cardinality({b \in DOMAIN roomBookings :
                               /\ roomBookings[b].roomId = room
                               /\ roomBookings[b].startDate <= today + day_offset
                               /\ today + day_offset <= roomBookings[b].endDate})
           available_count(room) ==
               [i \in 0 .. MaxDay - today |-> totalNumber[room] - booked_count(room, i)]
       IN \E last \in Rooms :
              Return(p, [Call("get_room_overview", NULL, NULL) EXCEPT
                            !.startDate = today, !.endDate = MaxDay,
                            !.list = [r \in Rooms |-> available_count(last)]],
                     200)
    /\ UNCHANGED <<db, keep>>

\* ------------------------------------------------------------------ initial states
EmptyTable == [k \in {} |-> NULL]

InitDb ==
    /\ totalNumber = [r \in Rooms |-> IF r = 1 THEN 1 ELSE MaxTotal]
    /\ roomBookings = EmptyTable
    /\ roomItems = EmptyTable
    /\ itineraries = EmptyTable
    /\ rideBookings = EmptyTable
    /\ nextId = [itinerary |-> 1, roomItem |-> 1, roomBooking |-> 1, ride |-> 1]
    /\ proc = [p \in Procs |-> Idle]

\* the empty tables when the room item sequence has been used before (the
\* items were removed again): one more room item can be created
OneHoldDb ==
    /\ totalNumber = [r \in Rooms |-> IF r = 1 THEN 1 ELSE MaxTotal]
    /\ roomBookings = EmptyTable
    /\ roomItems = EmptyTable
    /\ itineraries = EmptyTable
    /\ rideBookings = EmptyTable
    /\ nextId = [itinerary |-> 1, roomItem |-> MaxRoomItems, roomBooking |-> 1, ride |-> 1]
    /\ proc = [p \in Procs |-> Idle]

\* ------------------------------------------------------------------ the rooms of a hotel
\* update_room_count: PATCH /rooms/{room_id} sets room.totalNumber to the
\* number of the request and commits; the bookings of the room are not read.
\* The loop over availableNumber and bookedNumber changes two columns that no
\* other handler reads or writes; they are not part of the state.
update_room_count(p, room_id, total) ==
    /\ Ready(p)
    /\ LET call == [Call("update_room_count", NULL, room_id) EXCEPT !.roomId = room_id] IN
       IF room_id \notin Rooms
       THEN /\ Return(p, call, 404)
            /\ UNCHANGED totalNumber
       ELSE /\ totalNumber' = [totalNumber EXCEPT ![room_id] = total]
            /\ Return(p, call, 200)
    /\ UNCHANGED <<roomBookings, roomItems, itineraries, rideBookings, nextId, keep>>

\* ------------------------------------------------------------------ the room ledger and the holds
ItineraryIds == 1 .. MaxItineraries
RoomItemIds  == 1 .. MaxRoomItems
BookingIds   == 1 .. MaxBookings

\* the date ranges the requests carry: the ranges within Days, one of them empty
Ranges == {<<s, e>> \in Days \X Days : s < e} \cup {<<1, 1>>}
\* the date updates: both dates, or one of them
Updates == Ranges \cup {<<Unset, e>> : e \in {MaxDay}} \cup {<<s, Unset>> : s \in {0}}

\* the handlers on rooms, holds and bookings, run by the workers of P for the
\* customers of C
RoomNext(P, C) ==
    \/ \E p \in P, c \in C : create_itinerary(p, c)
    \/ \E p \in P, c \in C, i \in ItineraryIds, r \in Rooms, d \in Ranges :
          add_room_to_itinerary(p, c, i, r, d[1], d[2])
    \/ \E p \in P, c \in C, i \in ItineraryIds, k \in RoomItemIds, d \in Updates :
          update_room_dates(p, c, i, k, d[1], d[2])
    \/ \E p \in P, c \in C, i \in ItineraryIds, k \in RoomItemIds :
          remove_room_from_itinerary(p, c, i, k)
    \/ \E p \in P, c \in C, i \in ItineraryIds : delete_itinerary(p, c, i)
    \/ \E p \in P, c \in C, k \in RoomItemIds : book_room_read(p, c, k)
    \/ \E p \in P : book_room_flush(p)
    \/ \E p \in P : book_room_commit(p)
    \/ \E p \in P, c \in C, r \in Rooms, d \in Ranges, ok \in BOOLEAN :
          book_room_by_room_id_read(p, c, r, d[1], d[2], ok)
    \/ \E p \in P : book_room_by_room_id_commit(p)
    \/ \E p \in P, c \in C, k \in RoomItemIds : cancel_room_booking_endpoint(p, c, k)
    \/ \E p \in P : cancel_room_booking_commit(p)
    \/ \E p \in P, c \in C, b \in BookingIds, ok \in BOOLEAN :
          cancel_customer_booking_read(p, c, b, ok)
    \/ \E p \in P : cancel_customer_booking_commit(p)
    \/ \E p \in P : crash(p)

\* one request at a time: every handler runs from its first query to its commit
HoldInit == InitDb /\ keep = FALSE
HoldNext == RoomNext({1}, Customers)
HoldSpec == HoldInit /\ [][HoldNext]_vars

\* concurrent requests on the ledger: the commits and the releases of the
\* workers interleave
LedgerInit ==
    /\ OneHoldDb
    /\ keep = FALSE

LedgerActions(P) ==
    \/ \E p \in P, c \in Customers : create_itinerary(p, c)
    \/ \E p \in P, c \in Customers, i \in ItineraryIds, r \in Rooms, d \in Ranges :
          add_room_to_itinerary(p, c, i, r, d[1], d[2])
    \/ \E p \in P, c \in Customers, k \in RoomItemIds : book_room_read(p, c, k)
    \/ \E p \in P : book_room_flush(p)
    \/ \E p \in P : book_room_commit(p)
    \/ \E p \in P, c \in Customers, r \in Rooms, d \in Ranges, ok \in BOOLEAN :
          book_room_by_room_id_read(p, c, r, d[1], d[2], ok)
    \/ \E p \in P : book_room_by_room_id_commit(p)
    \/ \E p \in P, c \in Customers, k \in RoomItemIds :
          cancel_room_booking_endpoint(p, c, k)
    \/ \E p \in P : cancel_room_booking_commit(p)
    \/ \E p \in P, c \in Customers, b \in BookingIds, ok \in BOOLEAN :
          cancel_customer_booking_read(p, c, b, ok)
    \/ \E p \in P : cancel_customer_booking_commit(p)

LedgerNext == LedgerActions(Procs)
LedgerSpec == LedgerInit /\ [][LedgerNext]_vars

\* one request at a time on the ledger; the worker keeps the response of its
\* last request
ReleaseInit == OneHoldDb /\ keep = TRUE
ReleaseNext == LedgerActions({1})
ReleaseSpec == ReleaseInit /\ [][ReleaseNext]_vars

\* ------------------------------------------------------------------ the ride state machine
RideInit ==
    /\ InitDb
    /\ keep = TRUE

RideNext ==
    \/ \E p \in Procs, c \in Customers : create_itinerary(p, c)
    \/ \E p \in Procs, c \in Customers, i \in 1 .. MaxItineraries :
          book_ride_for_itinerary(p, c, i)
    \/ \E p \in Procs, r \in 1 .. MaxRides, u \in DriverUsers : accept_ride_read(p, r, u)
    \/ \E p \in Procs : accept_ride_commit(p)
    \/ \E p \in Procs, c \in Customers, i \in 1 .. MaxItineraries, r \in 1 .. MaxRides :
          cancel_ride_read(p, c, i, r)
    \/ \E p \in Procs : cancel_ride_commit(p)

RideSpec == RideInit /\ [][RideNext]_vars

\* ------------------------------------------------------------------ two commits racing
\* an itinerary with one uncommitted hold, an empty ledger; every worker
\* sends one commit, through the hold or directly, and keeps the response
RaceInit ==
    /\ totalNumber = [r \in Rooms |-> IF r = 1 THEN 1 ELSE MaxTotal]
    /\ roomBookings = EmptyTable
    /\ \E c \in Customers : itineraries = (1 :> c)
    /\ \E r \in Rooms, d \in Ranges :
          roomItems = (1 :> [itineraryId |-> 1, roomId |-> r, startDate |-> d[1],
                             endDate |-> d[2], roomBookingId |-> NULL])
    /\ rideBookings = EmptyTable
    /\ nextId = [itinerary |-> 2, roomItem |-> 2, roomBooking |-> 1, ride |-> 1]
    /\ proc = [p \in Procs |-> Idle]
    /\ keep = TRUE
RaceNext ==
    \/ \E p \in Procs, c \in Customers, k \in RoomItemIds :
          proc[p].pc = "idle" /\ book_room_read(p, c, k)
    \/ \E p \in Procs : book_room_flush(p)
    \/ \E p \in Procs : book_room_commit(p)
    \/ \E p \in Procs, c \in Customers, r \in Rooms, d \in Ranges :
          proc[p].pc = "idle" /\ book_room_by_room_id_read(p, c, r, d[1], d[2], TRUE)
    \/ \E p \in Procs : book_room_by_room_id_commit(p)

RaceSpec == RaceInit /\ [][RaceNext]_vars

\* ------------------------------------------------------------------ properties
BookingsOn(r, d) == {b \in DOMAIN roomBookings : roomBookings[b].roomId = r /\ Covers(b, d)}

\* C1: for every room r and every day d, the bookings of r with
\* startDate <= d < endDate are at most r.totalNumber, after any sequence of
\* commits and releases, the steps of concurrent callers interleaved
C1_CapacityInvariant ==
    \A r \in Rooms, d \in Days : Cardinality(BookingsOn(r, d)) <= totalNumber[r]

\* a finished commit call that was decided by the availability check
CommitDone(p) ==
    /\ proc[p].pc = "done"
    /\ proc[p].op \in {"book_room", "book_room_by_room_id"}
    /\ proc[p].res \in {200, 409}

\* C2: on a room with totalNumber = 1 and no bookings, of two commit calls for
\* overlapping ranges exactly one succeeds and the other fails with
\* CapacityExceeded (409), however their reads and inserts interleave
C2_ExactlyOneCommitWins ==
    \A p, q \in Procs :
        ( /\ p # q /\ CommitDone(p) /\ CommitDone(q)
          /\ proc[p].roomId = proc[q].roomId
          /\ totalNumber[proc[p].roomId] = 1
          /\ proc[p].startDate < proc[p].endDate
          /\ proc[q].startDate < proc[q].endDate
          /\ proc[p].startDate < proc[q].endDate
          /\ proc[q].startDate < proc[p].endDate )
        => {proc[p].res, proc[q].res} = {200, 409}

\* a finished accept_ride call on ride r that reported success
Accepted(p, r) ==
    /\ proc[p].pc = "done" /\ proc[p].op = "accept_ride"
    /\ proc[p].id = r /\ proc[p].res = 200

\* C3: of the drivers that call accept_ride on one pending, unassigned ride,
\* exactly one is told it succeeded, and the ride is left confirmed with that
\* driver; the others get "not found or already accepted"
C3_ClaimExclusive ==
    \A r \in DOMAIN rideBookings :
        /\ Cardinality({p \in Procs : Accepted(p, r)}) <= 1
        /\ \A p \in Procs :
              Accepted(p, r) /\ rideBookings[r].status = "confirmed"
                  => rideBookings[r].driverId = DriverTable[proc[p].who]

\* C4: a ride has a driver iff it is confirmed or completed
C4_DriverIffActive ==
    \A r \in DOMAIN rideBookings :
        (rideBookings[r].driverId # NULL)
            <=> (rideBookings[r].status \in {"confirmed", "completed"})

\* C5: a ride that is completed or cancelled keeps its status in every step
C5_TerminalStays ==
    [][\A r \in DOMAIN rideBookings :
          rideBookings[r].status \in {"completed", "cancelled"}
              => /\ r \in DOMAIN rideBookings'
                 /\ rideBookings'[r].status = rideBookings[r].status]_vars

\* the link of room item k
Link(k) == roomItems[k].roomBookingId

\* C6: every room item with a roomBookingId refers to a booking of the
\* item's room with the item's startDate and endDate
C6_HoldMatchesBooking ==
    \A k \in DOMAIN roomItems :
        Link(k) # NULL /\ Link(k) \in DOMAIN roomBookings
            => /\ roomBookings[Link(k)].roomId = roomItems[k].roomId
               /\ roomBookings[Link(k)].startDate = roomItems[k].startDate
               /\ roomBookings[Link(k)].endDate = roomItems[k].endDate

\* C7: every booking is referred to by at most one room item, and every
\* roomBookingId that is set is the id of a booking that exists
C7_OneToOneNoDangling ==
    /\ \A b \in DOMAIN roomBookings :
          Cardinality({k \in DOMAIN roomItems : Link(k) = b}) <= 1
    /\ \A k \in DOMAIN roomItems : Link(k) # NULL => Link(k) \in DOMAIN roomBookings

\* a hold committed after an earlier booking was released, beside a hold that
\* is not committed
C7_Witness ==
    /\ 1 \notin DOMAIN roomBookings
    /\ \E k, j \in DOMAIN roomItems :
          /\ Link(k) = 2 /\ 2 \in DOMAIN roomBookings
          /\ j # k /\ Link(j) = NULL

\* C8: the step in which book_room commits leaves the hold linked to a
\* booking of the hold's room and dates; the step in which the release
\* through the room item commits leaves the hold unlinked and its booking
\* deleted
C8_CommitLinksReleaseUnlinks ==
    [][\A p \in Procs :
          /\ proc[p].pc = "book_room_flushed" /\ roomBookings' # roomBookings
                => LET k == proc[p].id IN
                   /\ k \in DOMAIN roomItems'
                   /\ roomItems'[k].roomBookingId \in DOMAIN roomBookings'
                   /\ LET b == roomBookings'[roomItems'[k].roomBookingId] IN
                      /\ b.roomId = roomItems'[k].roomId
                      /\ b.startDate = roomItems'[k].startDate
                      /\ b.endDate = roomItems'[k].endDate
          /\ proc[p].pc = "cancel_room_booking"
                /\ (roomBookings' # roomBookings \/ roomItems' # roomItems)
                => /\ proc[p].id \in DOMAIN roomItems'
                   /\ roomItems'[proc[p].id].roomBookingId = NULL
                   /\ proc[p].bookingId \notin DOMAIN roomBookings'
      ]_vars

\* a hold on the second room committed again after its first booking was
\* released
C8_Witness ==
    /\ 1 \notin DOMAIN roomBookings
    /\ \E k \in DOMAIN roomItems :
          /\ roomItems[k].roomId = 2
          /\ Link(k) = 2 /\ 2 \in DOMAIN roomBookings
          /\ roomBookings[2].roomId = 2

\* C9: while book_room is between its INSERT and its commit the booking is
\* not in the table and no room item has its id; the step that ends the
\* request (commit, error or crash) makes the booking and the link of the
\* hold visible together or not at all
C9_InsertAndLinkTogether ==
    [][\A p \in Procs :
          proc[p].pc = "book_room_flushed"
              => LET b == proc[p].bookingId
                     k == proc[p].id
                 IN
                 /\ b \notin DOMAIN roomBookings
                 /\ \A j \in DOMAIN roomItems : Link(j) # b
                 /\ (b \in DOMAIN roomBookings')
                       <=> (k \in DOMAIN roomItems' /\ roomItems'[k].roomBookingId = b)
      ]_vars

\* book_room has sent its INSERT and has not committed
C9_Witness == \E p \in Procs : proc[p].pc = "book_room_flushed"

\* a finished release of booking b that succeeded
Released(p, b) ==
    /\ proc[p].pc = "done" /\ proc[p].res = 200
    /\ proc[p].op \in {"cancel_customer_booking", "cancel_room_booking_endpoint"}
    /\ proc[p].bookingId = b

\* C10: when the owner, right after a successful release of booking b, calls
\* the release of b again, the call answers 404 at once and changes no table
C10_SecondReleaseNotFound ==
    [][\A p \in Procs, b \in BookingIds :
          ( /\ Released(p, b)
            /\ proc'[p] # proc[p]
            /\ proc'[p].op = "cancel_customer_booking"
            /\ proc'[p].id = b
            /\ proc'[p].who = proc[p].who )
          => /\ proc'[p].pc = "done"
             /\ proc'[p].res = 404
             /\ UNCHANGED db
      ]_vars

\* the second release of a booking has answered 404
C10_Witness ==
    \E p \in Procs :
        /\ proc[p].pc = "done" /\ proc[p].op = "cancel_customer_booking"
        /\ proc[p].res = 404
        /\ proc[p].id < nextId.roomBooking
        /\ proc[p].id \notin DOMAIN roomBookings

\* C11: every room booking has endDate strictly greater than startDate (a
\* commit with endDate <= startDate is refused and inserts nothing)
C11_RangeValid ==
    \A b \in DOMAIN roomBookings : roomBookings[b].startDate < roomBookings[b].endDate

\* ------------------------------------------------------------------ the availability decision
\* the stays a request can ask for: every range of days of Days, check-out
\* on the day after the last day at the latest
StayRanges == {<<s, e>> \in Days \X (1 .. MaxDay + 1) : s < e}

\* one request at a time, the commits (through a hold or direct) of one
\* customer on a ledger that starts empty; the worker keeps the response of
\* its last request
AvailInit == OneHoldDb /\ keep = TRUE
AvailActions(p, C) ==
    \/ \E c \in C : create_itinerary(p, c)
    \/ \E c \in C, i \in ItineraryIds, r \in Rooms, d \in StayRanges :
          add_room_to_itinerary(p, c, i, r, d[1], d[2])
    \/ \E c \in C, k \in RoomItemIds : book_room_read(p, c, k)
    \/ book_room_flush(p)
    \/ book_room_commit(p)
    \/ \E c \in C, r \in Rooms, d \in StayRanges :
          book_room_by_room_id_read(p, c, r, d[1], d[2], TRUE)
    \/ book_room_by_room_id_commit(p)
AvailNext == AvailActions(1, {1})
AvailSpec == AvailInit /\ [][AvailNext]_vars

\* the days of [s, e) on which room r has at least totalNumber bookings
Conflicting(r, s, e) ==
    {d \in Days : s <= d /\ d < e /\ Cardinality(BookingsOn(r, d)) >= totalNumber[r]}

\* this step is the availability decision of a commit call of worker p for a
\* range with startDate < endDate: the call is refused with 409 or goes on to
\* its insert
Decides(p) ==
    /\ Ready(p)
    /\ proc'[p] # proc[p]
    /\ proc'[p].op \in {"book_room", "book_room_by_room_id"}
    /\ proc'[p].res = 409 \/ proc'[p].pc \in {"book_room", "book_room_by_room_id"}
    /\ proc'[p].startDate < proc'[p].endDate

\* C12: a commit on room r for [startDate, endDate) is refused (409) iff some
\* day of the range has at least totalNumber bookings of r, and the dates the
\* refusal lists are exactly those days
C12_RefusedIffDayFull ==
    [][\A p \in Procs :
          Decides(p) =>
              LET days == Conflicting(proc'[p].roomId, proc'[p].startDate,
                                      proc'[p].endDate)
              IN  /\ (proc'[p].res = 409) <=> (days # {})
                  /\ proc'[p].res = 409 => proc'[p].dates = days
      ]_vars

\* C12 for the direct commit alone
C12_DirectRefusedIffDayFull ==
    [][\A p \in Procs :
          Decides(p) /\ proc'[p].op = "book_room_by_room_id" =>
              LET days == Conflicting(proc'[p].roomId, proc'[p].startDate,
                                      proc'[p].endDate)
              IN  /\ (proc'[p].res = 409) <=> (days # {})
                  /\ proc'[p].res = 409 => proc'[p].dates = days
      ]_vars

\* the scenario of C12 on the room with totalNumber = 2: after the stays
\* [0, 2) and [1, 3) a direct commit for [1, 2) is refused and lists day 1
C12_Scenario ==
    /\ totalNumber[2] = 2
    /\ \E a, b \in DOMAIN roomBookings :
          /\ roomBookings[a].roomId = 2 /\ roomBookings[b].roomId = 2
          /\ roomBookings[a].startDate = 0 /\ roomBookings[a].endDate = 2
          /\ roomBookings[b].startDate = 1 /\ roomBookings[b].endDate = 3
    /\ proc[1].pc = "done" /\ proc[1].op = "book_room_by_room_id"
    /\ proc[1].roomId = 2 /\ proc[1].startDate = 1 /\ proc[1].endDate = 2
    /\ proc[1].res = 409 /\ proc[1].dates = {1}

\* C13: the availability decision of book_room for a hold on room r is the
\* decision on the bookings of r alone: the call is refused with 409 only
\* when a day of the hold's range has at least totalNumber bookings whose
\* roomId is r, whatever bookings the other rooms have
C13_OnlyOwnRoomCounts ==
    [][\A p \in Procs :
          Decides(p) /\ proc'[p].op = "book_room" /\ proc'[p].res = 409
              => \E d \in Days :
                    /\ proc'[p].startDate <= d /\ d < proc'[p].endDate
                    /\ Cardinality({b \in DOMAIN roomBookings :
                           roomBookings[b].roomId = proc'[p].roomId /\ Covers(b, d)})
                          >= totalNumber[proc'[p].roomId]
      ]_vars

\* this step is worker p taking up a request of handler op
Starts(p, op) == Ready(p) /\ proc'[p] # proc[p] /\ proc'[p].op = op

\* C14: book_room by the owner of a room item whose roomBookingId is set
\* answers 400 ("already booked"), inserts no booking and leaves the link
\* and every other row as they are
C14_AlreadyCommittedRefused ==
    [][\A p \in Procs :
          ( /\ Starts(p, "book_room")
            /\ proc'[p].id \in DOMAIN roomItems
            /\ Link(proc'[p].id) # NULL
            /\ OwnsItinerary(proc'[p].who, roomItems[proc'[p].id].itineraryId) )
          => /\ proc'[p].pc = "done"
             /\ proc'[p].res = 400
             /\ UNCHANGED db
      ]_vars

\* book_room on a hold that another request has just committed was refused
C14_Witness ==
    \E p \in Procs :
        /\ proc[p].pc = "done" /\ proc[p].op = "book_room" /\ proc[p].res = 400
        /\ proc[p].id \in DOMAIN roomItems
        /\ Link(proc[p].id) \in DOMAIN roomBookings

\* the customer a room item belongs to (the owner of its itinerary)
HoldOwner(k) == itineraries[roomItems[k].itineraryId]

\* this step starts a commit or a release of worker p on a room item or a
\* booking of another customer
StartsOnForeign(p) ==
    \/ /\ Starts(p, "book_room") \/ Starts(p, "cancel_room_booking_endpoint")
       /\ proc'[p].id \in DOMAIN roomItems
       /\ roomItems[proc'[p].id].itineraryId \in DOMAIN itineraries
       /\ HoldOwner(proc'[p].id) # proc'[p].who
    \/ /\ Starts(p, "cancel_customer_booking")
       /\ proc'[p].id \in DOMAIN roomBookings
       /\ roomBookings[proc'[p].id].customerId # proc'[p].who

\* C15: book_room, cancel_room_booking_endpoint or cancel_customer_booking
\* called by a customer on a room item or booking of another customer answers
\* 403 and changes no booking and no room item
C15_ForeignCallForbidden ==
    [][\A p \in Procs :
          StartsOnForeign(p)
              => /\ proc'[p].pc = "done"
                 /\ proc'[p].res = 403
                 /\ UNCHANGED db
      ]_vars

\* C15 with any refusal in place of 403: the call on another customer's room
\* item or booking is refused (403 or 404) and changes nothing
C15_ForeignCallRefused ==
    [][\A p \in Procs :
          StartsOnForeign(p)
              => /\ proc'[p].pc = "done"
                 /\ proc'[p].res \in {403, 404}
                 /\ UNCHANGED db
      ]_vars

\* the customer whose request the step of worker p belongs to
Caller(p) == IF Ready(p) THEN proc'[p].who ELSE proc[p].who

\* C15, second part: a step of a request of customer a leaves the bookings
\* and the room items of every other customer as they are
C15_OthersUntouched ==
    [][\A p \in Procs, c \in Customers :
          proc'[p] # proc[p] /\ Caller(p) # c
              => /\ \A b \in DOMAIN roomBookings :
                       roomBookings[b].customerId = c
                           => b \in DOMAIN roomBookings' /\ roomBookings'[b] = roomBookings[b]
                 /\ \A b \in DOMAIN roomBookings' :
                       roomBookings'[b].customerId = c => b \in DOMAIN roomBookings
                 /\ \A k \in DOMAIN roomItems :
                       HoldOwner(k) = c
                           => k \in DOMAIN roomItems' /\ roomItems'[k] = roomItems[k]
                 /\ \A k \in DOMAIN roomItems' :
                       itineraries'[roomItems'[k].itineraryId] = c => k \in DOMAIN roomItems
      ]_vars

\* C16: a step that removes a room item from an itinerary that stays
\* (remove_room_from_itinerary) does not leave the booking of the item behind:
\* the item had no booking, or its booking is deleted in the same step
C16_RemoveReleasesBooking ==
    [][\A k \in DOMAIN roomItems :
          ( /\ k \notin DOMAIN roomItems'
            /\ roomItems[k].itineraryId \in DOMAIN itineraries'
            /\ Link(k) # NULL )
          => Link(k) \notin DOMAIN roomBookings'
      ]_vars

\* ------------------------------------------------------------------ itineraries with rides
\* the rows a ride of itinerary i and customer c can be in the rideBookings
\* table: every value of the ride_status enum, which delete_itinerary tests
\* for; a confirmed or completed ride has a driver
RideRows(c, i) ==
    {[customerId |-> c, itineraryId |-> i, driverId |-> d, status |-> s] :
        <<s, d>> \in {<<"pending", NULL>>, <<"cancelled", NULL>>,
                      <<"confirmed", DriverTable[1]>>, <<"completed", DriverTable[1]>>}}

\* an itinerary of some customer with up to MaxRides rides; one request at a
\* time, the worker keeps the response of its last request
TripInit ==
    /\ totalNumber = [r \in Rooms |-> IF r = 1 THEN 1 ELSE MaxTotal]
    /\ roomBookings = EmptyTable
    /\ roomItems = EmptyTable
    /\ \E c \in Customers, n \in 0 .. MaxRides :
          /\ itineraries = (1 :> c)
          /\ rideBookings \in [1 .. n -> RideRows(c, 1)]
          /\ nextId = [itinerary |-> 2, roomItem |-> 1, roomBooking |-> 1, ride |-> n + 1]
    /\ proc = [p \in Procs |-> Idle]
    /\ keep = TRUE

TripActions(p) ==
    \/ \E c \in Customers, i \in ItineraryIds : book_ride_for_itinerary(p, c, i)
    \/ \E r \in 1 .. MaxRides, u \in DriverUsers : accept_ride_read(p, r, u)
    \/ accept_ride_commit(p)
    \/ \E c \in Customers, i \in ItineraryIds, r \in 1 .. MaxRides :
          cancel_ride_read(p, c, i, r)
    \/ cancel_ride_commit(p)
    \/ \E c \in Customers, i \in ItineraryIds : delete_itinerary(p, c, i)
TripNext == TripActions(1)
TripSpec == TripInit /\ [][TripNext]_vars

\* the rides linked to itinerary i
RidesOf(i) == {r \in DOMAIN rideBookings : rideBookings[r].itineraryId = i}

\* C17: delete_itinerary by the owner of an itinerary that has at least one
\* ride with status confirmed or completed, among however many rides, is
\* refused (400) and leaves the itinerary, its room items and its rides as
\* they are
C17_DeleteRefusedWhenRideActive ==
    [][\A p \in Procs :
          ( /\ Starts(p, "delete_itinerary")
            /\ OwnsItinerary(proc'[p].who, proc'[p].id)
            /\ \E r \in RidesOf(proc'[p].id) :
                  rideBookings[r].status \in {"confirmed", "completed"} )
          => /\ proc'[p].res = 400
             /\ UNCHANGED db
      ]_vars

C19_CommittedDatesFixed ==
    [][\A k \in DOMAIN roomItems :
          Link(k) # NULL /\ k \in DOMAIN roomItems'
              => /\ roomItems'[k].startDate = roomItems[k].startDate
                 /\ roomItems'[k].endDate = roomItems[k].endDate
      ]_vars

\* C20: the commit of cancel_ride on a ride that is pending or confirmed
\* answers 204 and leaves the ride cancelled; on a ride that is completed or
\* cancelled it answers an error and leaves the ride as it is
C20_CancelOnlyFromOpen ==
    [][\A p \in Procs :
          proc[p].pc \in {"cancel_ride", "cancel_ride_clean"} /\ proc'[p].pc = "done"
              => LET ride == rideBookings[proc[p].id] IN
                 IF ride.status \in {"pending", "confirmed"}
                 THEN proc'[p].res = 204 => rideBookings'[proc[p].id].status = "cancelled"
                 ELSE /\ proc'[p].res >= 400
                      /\ rideBookings' = rideBookings
      ]_vars

\* C21: accept_ride by a driver on a ride that is not pending or has a driver
\* answers 404 ("not found or already accepted") and changes nothing; on a
\* pending ride without driver it goes on, and its commit answers 200 and
\* leaves the ride confirmed with the driver record of the caller
C21_ClaimOnlyPendingUnassigned ==
    [][\A p \in Procs :
          /\ ( /\ Starts(p, "accept_ride")
               /\ proc'[p].who \in DOMAIN DriverTable
               /\ proc'[p].id \in DOMAIN rideBookings )
             => IF /\ rideBookings[proc'[p].id].status = "pending"
                   /\ rideBookings[proc'[p].id].driverId = NULL
                THEN proc'[p].pc = "accept_ride" /\ UNCHANGED db
                ELSE proc'[p].pc = "done" /\ proc'[p].res = 404 /\ UNCHANGED db
          /\ proc[p].pc = "accept_ride" /\ proc'[p].pc = "done"
             => /\ proc'[p].res = 200
                /\ rideBookings'[proc[p].id].status = "confirmed"
                /\ rideBookings'[proc[p].id].driverId = DriverTable[proc[p].who]
                /\ \A r \in DOMAIN rideBookings \ {proc[p].id} :
                      rideBookings'[r] = rideBookings[r]
      ]_vars

\* a driver was refused a ride that another driver holds, after a ride was
\* accepted by a request
C21_Witness ==
    \E p \in Procs, r \in DOMAIN rideBookings :
        /\ proc[p].pc = "done" /\ proc[p].op = "accept_ride" /\ proc[p].res = 404
        /\ proc[p].id = r /\ proc[p].who \in DOMAIN DriverTable
        /\ rideBookings[r].status = "confirmed"
        /\ rideBookings[r].driverId # DriverTable[proc[p].who]
        /\ rideBookings[r].driverId = DriverTable[2]

\* ------------------------------------------------------------------ the ride machine, driven to its end
\* the ride handlers of the customers and the drivers, without cancellation;
\* a request that is refused leaves no trace.  Fairness: whenever some handler
\* can change the state of a ride or of a request, one eventually does
RideLiveInit == InitDb /\ keep = FALSE
RideLiveNext ==
    \/ \E p \in Procs, c \in Customers : create_itinerary(p, c)
    \/ \E p \in Procs, c \in Customers, i \in ItineraryIds :
          book_ride_for_itinerary(p, c, i)
    \/ \E p \in Procs, r \in 1 .. MaxRides, u \in DriverUsers : accept_ride_read(p, r, u)
    \/ \E p \in Procs : accept_ride_commit(p)
RideLiveSpec == RideLiveInit /\ [][RideLiveNext]_vars /\ WF_vars(RideLiveNext)

C22_NoStepCompletes ==
    [][\A r \in DOMAIN rideBookings' :
          rideBookings'[r].status = "completed"
              => r \in DOMAIN rideBookings /\ rideBookings[r].status = "completed"
      ]_vars

\* C23: add_room_to_itinerary by the owner of the itinerary for a room that
\* exists answers 200 whatever bookings the room has, adds one room item with
\* the requested room and dates and no roomBookingId, and leaves the
\* bookings, the capacities and so the full days of every room and range as
\* they are
C23_HoldNeedsNoCapacity ==
    [][\A p \in Procs :
          ( /\ Starts(p, "add_room_to_itinerary")
            /\ OwnsItinerary(proc'[p].who, proc'[p].id)
            /\ proc'[p].roomId \in Rooms )
          => /\ proc'[p].res = 200
             /\ roomBookings' = roomBookings
             /\ totalNumber' = totalNumber
             /\ \A r \in Rooms, d \in StayRanges :
                   Conflicting(r, d[1], d[2])' = Conflicting(r, d[1], d[2])
             /\ \E k \in DOMAIN roomItems' \ DOMAIN roomItems :
                   /\ DOMAIN roomItems' = DOMAIN roomItems \cup {k}
                   /\ roomItems'[k] = [itineraryId |-> proc'[p].id,
                                       roomId |-> proc'[p].roomId,
                                       startDate |-> proc'[p].startDate,
                                       endDate |-> proc'[p].endDate,
                                       roomBookingId |-> NULL]
             /\ \A k \in DOMAIN roomItems : roomItems'[k] = roomItems[k]
      ]_vars

\* a hold was created on a room and a range of which a day is full
C23_Witness ==
    /\ proc[1].pc = "done" /\ proc[1].op = "add_room_to_itinerary" /\ proc[1].res = 200
    /\ Conflicting(proc[1].roomId, proc[1].startDate, proc[1].endDate) # {}
    /\ \E k \in DOMAIN roomItems :
          /\ roomItems[k].roomId = proc[1].roomId
          /\ roomItems[k].startDate = proc[1].startDate
          /\ Link(k) = NULL

\* ------------------------------------------------------------------ commit and release in turn
\* one request at a time, the commits and the releases of the customers of C;
\* the worker keeps the response of its last request
RoundInit == OneHoldDb /\ keep = TRUE
RoundActions(p, C) ==
    \/ AvailActions(p, C)
    \/ \E c \in C, k \in RoomItemIds : cancel_room_booking_endpoint(p, c, k)
    \/ cancel_room_booking_commit(p)
    \/ \E c \in C, b \in BookingIds, ok \in BOOLEAN :
          cancel_customer_booking_read(p, c, b, ok)
    \/ cancel_customer_booking_commit(p)
RoundNext == RoundActions(1, {1})
RoundSpec == RoundInit /\ [][RoundNext]_vars

\* C24: cancel_room_booking_endpoint by the owner on a room item without
\* roomBookingId answers 400 ("not currently booked") and changes no table;
\* so does the call that follows a successful release of the same room item
C24_ReleaseUncommittedRefused ==
    [][\A p \in Procs :
          /\ ( /\ Starts(p, "cancel_room_booking_endpoint")
               /\ proc'[p].id \in DOMAIN roomItems
               /\ OwnsItinerary(proc'[p].who, roomItems[proc'[p].id].itineraryId)
               /\ Link(proc'[p].id) = NULL )
             => /\ proc'[p].pc = "done"
                /\ proc'[p].res = 400
                /\ UNCHANGED db
          /\ ( /\ proc[p].pc = "done" /\ proc[p].res = 200
               /\ proc[p].op = "cancel_room_booking_endpoint"
               /\ Starts(p, "cancel_room_booking_endpoint")
               /\ proc'[p].id = proc[p].id /\ proc'[p].who = proc[p].who )
             => /\ proc'[p].pc = "done"
                /\ proc'[p].res = 400
                /\ UNCHANGED db
      ]_vars

\* the release of a room item whose booking had been released was refused
C24_Witness ==
    \E p \in Procs :
        /\ proc[p].pc = "done" /\ proc[p].op = "cancel_room_booking_endpoint"
        /\ proc[p].res = 400
        /\ proc[p].id \in DOMAIN roomItems /\ Link(proc[p].id) = NULL
        /\ nextId.roomBooking = 2 /\ roomBookings = EmptyTable


\* a finished book_room call on room item k that reported success
Committed(p, k) ==
    /\ proc[p].pc = "done" /\ proc[p].op = "book_room"
    /\ proc[p].id = k /\ proc[p].res = 200

\* C25: of the book_room calls on one uncommitted room item that read the
\* item before any of them wrote, at most one creates a booking, and every
\* booking created for the item is the one the item references
C25_OneBookingPerHold ==
    \A k \in DOMAIN roomItems :
        /\ Cardinality({p \in Procs : Committed(p, k)}) <= 1
        /\ \A p \in Procs :
              Committed(p, k) /\ proc[p].bookingId \in DOMAIN roomBookings
                  => roomItems[k].roomBookingId = proc[p].bookingId


\* ------------------------------------------------------------------ the room count changes
\* one request at a time: the holds and commits of customer 1, and the hotel
\* that sets the number of units of a room
CountInit == OneHoldDb /\ keep = TRUE
CountNext ==
    \/ AvailActions(1, {1})
    \/ \E r \in 1 .. NumRooms + 1, n \in 1 .. MaxTotal : update_room_count(1, r, n)
CountSpec == CountInit /\ [][CountNext]_vars

\* C26: update_room_count keeps "bookings on a day <= totalNumber": a call
\* made while the bound holds leaves it holding, and a number below the
\* bookings of the room on some day is not written
C26_CountKeepsCapacity ==
    [][\A p \in Procs :
          Starts(p, "update_room_count") /\ C1_CapacityInvariant
             => /\ C1_CapacityInvariant'
                /\ \A r \in Rooms :
                      (\E d \in Days : Cardinality(BookingsOn(r, d)) > totalNumber'[r])
                          => totalNumber'[r] = totalNumber[r]
      ]_vars


\* C27: the step that deletes itinerary i leaves no room item and no ride
\* with itineraryId = i, and no booking that a room item of i referenced
C27_DeleteLeavesNothing ==
    [][\A i \in DOMAIN itineraries :
          i \notin DOMAIN itineraries'
             => /\ \A k \in DOMAIN roomItems' : roomItems'[k].itineraryId # i
                /\ \A r \in DOMAIN rideBookings' : rideBookings'[r].itineraryId # i
                /\ \A k \in DOMAIN roomItems :
                      roomItems[k].itineraryId = i /\ Link(k) # NULL
                          => Link(k) \notin DOMAIN roomBookings'
      ]_vars


\* booking b of customer c is referenced by room item k of an itinerary of c
HeldBy(c, k, b) ==
    /\ k \in DOMAIN roomItems /\ b \in DOMAIN roomBookings
    /\ Link(k) = b
    /\ roomBookings[b].customerId = c
    /\ OwnsItinerary(c, roomItems[k].itineraryId)

\* C28: for a booking of the caller that a room item of the caller
\* references, cancel_room_booking_endpoint on the room item and
\* cancel_customer_booking on the booking id are both accepted, and the
\* commit of either deletes the booking and empties the link of every room
\* item that referenced it
C28_ReleasePathsAgree ==
    [][\A p \in Procs :
          /\ ( /\ Starts(p, "cancel_room_booking_endpoint")
               /\ \E b \in DOMAIN roomBookings : HeldBy(proc'[p].who, proc'[p].id, b) )
             => proc'[p].pc = "cancel_room_booking"
          /\ ( /\ Starts(p, "cancel_customer_booking")
               /\ \E k \in DOMAIN roomItems : HeldBy(proc'[p].who, k, proc'[p].id) )
             => proc'[p].pc = "cancel_customer_booking"
          /\ ( /\ proc[p].pc \in {"cancel_room_booking", "cancel_customer_booking"}
               /\ proc'[p].pc = "done" /\ proc'[p].res = 200 )
             => /\ roomBookings' = Delete(roomBookings, {proc[p].bookingId})
                /\ \A k \in DOMAIN roomItems :
                      /\ k \in DOMAIN roomItems'
                      /\ roomItems'[k] = IF Link(k) = proc[p].bookingId
                                         THEN [roomItems[k] EXCEPT !.roomBookingId = NULL]
                                         ELSE roomItems[k]
      ]_vars


\* ------------------------------------------------------------------ bookings and listings
\* one request at a time: customer 1 books rooms and cancels bookings, and
\* the three listings are asked for
ListInit == InitDb /\ keep = TRUE
ListNext ==
    \/ \E r \in Rooms, d \in StayRanges : book_room_by_room_id_read(1, 1, r, d[1], d[2], TRUE)
    \/ book_room_by_room_id_commit(1)
    \/ \E b \in BookingIds : cancel_customer_booking_read(1, 1, b, TRUE)
    \/ cancel_customer_booking_commit(1)
    \/ \E d \in {w \in Days \X Days : w[1] <= w[2]} : get_available_rooms(1, d[1], d[2])
    \/ \E now \in 0 .. 2 * MaxDay + 1 : get_hotel(1, now)
    \/ \E today \in Days : get_room_overview(1, today)
ListSpec == ListInit /\ [][ListNext]_vars

\* a finished listing
Listed(p, op) == proc[p].pc = "done" /\ proc[p].op = op /\ proc[p].res = 200

\* the entry of index i of the list of room r in the response of p is
\* totalNumber minus the bookings of r that cover the day of that entry
ExactList(p) ==
    \A r \in Rooms : \A i \in DOMAIN proc[p].list[r] :
        proc[p].list[r][i] =
            totalNumber[r] - Cardinality(BookingsOn(r, proc[p].startDate + i))

\* C29: each availability listing reports, for every room and every day d of
\* its window, totalNumber minus the bookings of the room with
\* startDate <= d < endDate
C29_ListingsExact ==
    \A p \in Procs :
        /\ Listed(p, "get_available_rooms") => ExactList(p)
        /\ Listed(p, "get_hotel") => ExactList(p)
        /\ Listed(p, "get_room_overview") => ExactList(p)

\* the three listings one by one: get_available_rooms
C29_AvailableRoomsExact ==
    \A p \in Procs : Listed(p, "get_available_rooms") => ExactList(p)

\* get_hotel at any time of day
C29_HotelExact ==
    \A p \in Procs : Listed(p, "get_hotel") => ExactList(p)

\* get_hotel when utcnow() is midnight sharp
C29_HotelExactAtMidnight ==
    \A p \in Procs : Listed(p, "get_hotel") /\ proc[p].now = 2 * proc[p].startDate
                        => ExactList(p)

\* get_room_overview
C29_RoomOverviewExact ==
    \A p \in Procs : Listed(p, "get_room_overview") => ExactList(p)


\* ------------------------------------------------------------------ commit, then release
\* one room item; worker 2 may first book a room directly, then worker 1
\* commits and releases the room item, one request at a time and nothing else
PairInit == RaceInit
PairNext ==
    \/ \E c \in Customers, r \in Rooms, d \in StayRanges :
          /\ proc[1].pc = "idle" /\ proc[2].pc = "idle"
          /\ book_room_by_room_id_read(2, c, r, d[1], d[2], TRUE)
    \/ book_room_by_room_id_commit(2)
    \/ \E c \in Customers, k \in RoomItemIds : Ready(2) /\ book_room_read(1, c, k)
    \/ book_room_flush(1)
    \/ book_room_commit(1)
    \/ \E c \in Customers, k \in RoomItemIds :
          Ready(2) /\ cancel_room_booking_endpoint(1, c, k)
    \/ cancel_room_booking_commit(1)
PairSpec == PairInit /\ [][PairNext]_vars

\* the bookings before worker 1 began: the one worker 2 made, if any
PairBefore ==
    IF proc[2].pc = "done" /\ proc[2].res = 200
    THEN Insert(EmptyTable, proc[2].bookingId,
                [customerId |-> proc[2].who, roomId |-> proc[2].roomId,
                 startDate |-> proc[2].startDate, endDate |-> proc[2].endDate])
    ELSE EmptyTable

\* C30: when book_room on a room item succeeded and then
\* cancel_room_booking_endpoint on it succeeded, with nothing in between, the
\* bookings are the ones there were before the commit, the room item has no
\* booking again, and the days on which a room is full are the same
C30_PairRestores ==
    \A k \in DOMAIN roomItems :
        ( /\ proc[1].pc = "done" /\ proc[1].res = 200
          /\ proc[1].op = "cancel_room_booking_endpoint" /\ proc[1].id = k )
        => /\ roomBookings = PairBefore
           /\ Link(k) = NULL
           /\ \A r \in Rooms, d \in Days :
                 Cardinality(BookingsOn(r, d)) =
                     Cardinality({b \in DOMAIN PairBefore :
                                     /\ PairBefore[b].roomId = r
                                     /\ PairBefore[b].startDate <= d
                                     /\ d < PairBefore[b].endDate})

\* the room item was committed and released while its room had another booking
C30_Witness ==
    /\ proc[1].pc = "done" /\ proc[1].res = 200
    /\ proc[1].op = "cancel_room_booking_endpoint" /\ proc[1].id \in DOMAIN roomItems
    /\ proc[2].pc = "done" /\ proc[2].res = 200
    /\ proc[2].roomId = roomItems[proc[1].id].roomId
    /\ nextId.roomBooking = 3

====
